---- MODULE Spec2Model ----
(***************************************************************************)
(* Model of the glitch preview viewer's animation state machine            *)
(* (src/src/character/AnimationManager.ts, the revision with clip          *)
(* playback, lines 1-155) and of its locomotion controller                 *)
(* (src/src/character/MannequinController.ts, the revision with flight,    *)
(* lines 181-447).                                                         *)
(*                                                                         *)
(* Animation manager: time in milliseconds, speed ratios in tenths.        *)
(* Controller: fixed-point numbers. Time in ticks of 1/60 s, velocity in   *)
(* 1/6000000 units per second, position in 1/360000 units, yaw in          *)
(* 1/2000 rad, angles inside Math.sin in microradians, sines in            *)
(* millionths. Products that are not exact are rounded toward zero; every  *)
(* intermediate value stays below 2^31.                                    *)
(***************************************************************************)
EXTENDS Integers, Sequences, FiniteSets

\* ------------------------------------------------------------------ bounds
\* Number of calls of one AnimationManager, bindAnimations and update in
\* any order, explored in one run.
MaxCalls == 5
\* Number of these that are bindAnimations calls.
MaxBinds == 2

\* ------------------------------------------------------------------ types
\* The movement classifications a caller passes to update():
\* MannequinController.getMovementState returns these six tags.
MovementStates == {"idle", "walking", "running", "jumping", "falling", "flying"}

\* The animation states of the manager (keys of STATE_TO_ANIM).
AnimationStates == {"idle", "walk", "run", "jump", "fall", "land"}

\* Frame times handed to update(): a 60 Hz frame, a long stall.
DtValues == {16, 400}

\* Names of the animation groups in the GLB.
GroupNames == {"Idle", "Walk", "Jump", "Float-fly", "Landing", "Happy Idle"}

\* Loads of the GLB. Each load creates the animation groups anew, so the
\* groups of two loads are different objects with the same names.
Loads == {1, 2}

\* An animation group object: the group named name created by that load.
Group(name, load) == [name |-> name, load |-> load]

\* null / absent map entry
NoGroup == Group("none", 0)

\* The groups of these names, as one load of the GLB created them.
GroupsOf(names, load) == {Group(n, load) : n \in names}

\* Collections of animation groups handed to bindAnimations(): the groups
\* of one load, all of them or some, or none. A caller that binds twice
\* passes the same objects again or those of another load.
GroupCollections ==
    { {} } \cup
    { GroupsOf(names, load) :
        names \in { {"Happy Idle"},
                    {"Idle", "Walk"},
                    {"Walk", "Jump", "Float-fly"},
                    GroupNames },
        load \in Loads }

\* ------------------------------------------------------------------ tables
STATE_TO_ANIM ==
    [s \in AnimationStates |->
        CASE s = "idle" -> "Idle"
          [] s = "walk" -> "Walk"
          [] s = "run"  -> "Walk"
          [] s = "jump" -> "Jump"
          [] s = "fall" -> "Float-fly"
          [] s = "land" -> "Landing"]

LOOPING_STATES == {"idle", "walk", "run", "fall"}

\* speed ratio in tenths: SPEED_RATIOS[state] ?? 1.0
SPEED_RATIOS(s) == IF s = "run" THEN 15 ELSE 10

VARIABLES
    currentState,   \* AnimationManager.currentState
    animMap,        \* AnimationManager.animMap: state -> group or NoGroup
    currentGroup,   \* AnimationManager.currentGroup
    hasAnimations,  \* AnimationManager.hasAnimations
    cmds,           \* commands the last call issued to animation groups
    shadowState,    \* currentState of a second manager fed the same
                    \* classifications with other frame times
    dtDiffered,     \* the last update gave the two managers different dt
    hist,           \* classifications passed to update(), in order
    trace,          \* currentState at construction and after each update
    nBinds,         \* number of bindAnimations calls so far
    lastOp,         \* the AnimationManager method called last
    prevGroup,      \* currentGroup before the last call
    clips,          \* the animation groups as the manager's calls left
                    \* them: those started and not stopped since and the
                    \* one started last, followed until dispose() is called
    ctl,            \* MannequinController fields and the mannequin's
                    \* root transform (position, rotation.y)
    obs,            \* what the last controller call did, and the
                    \* controller before it (see Observed)
    nFrames,        \* number of MannequinController.update calls so far
    nKeys,          \* number of key events so far
    bridge,         \* PostMessageBridge fields, and whether its handler
                    \* is registered on the window
    inbox,          \* the last message event dispatched on the window,
                    \* whether it met a spawn callback and a disposed
                    \* bridge, and the callbacks it invoked
    nMsgs,          \* number of message events so far
    life            \* GlitchLifecycle: its state, the fields that are not
                    \* null, where a suspended spawn() waits, the scene's
                    \* before-render callbacks, and what the last call did

animVars == <<currentState, animMap, currentGroup, hasAnimations, cmds,
              shadowState, dtDiffered, hist, trace, nBinds, lastOp, prevGroup,
              clips>>

ctlVars == <<ctl, obs, nFrames, nKeys>>

brVars == <<bridge, inbox, nMsgs>>

lifeVars == <<life>>

vars == <<currentState, animMap, currentGroup, hasAnimations, cmds,
          shadowState, dtDiffered, hist, trace, nBinds, lastOp, prevGroup,
          clips, ctl, obs, nFrames, nKeys, bridge, inbox, nMsgs, life>>

\* ------------------------------------------------- update(): the switch
Grounded == {"idle", "walking", "running"}

caseIdle(ms) ==
    CASE ms = "walking" -> "walk"
      [] ms = "running" -> "run"
      [] ms = "jumping" -> "jump"
      [] ms = "falling" -> "fall"
      [] OTHER -> "idle"

caseWalk(ms) ==
    CASE ms = "idle"    -> "idle"
      [] ms = "running" -> "run"
      [] ms = "jumping" -> "jump"
      [] ms = "falling" -> "fall"
      [] OTHER -> "walk"

\* run that ignores the walking classification
caseRun_noWalk(ms) ==
    CASE ms = "idle"    -> "idle"
      [] ms = "jumping" -> "jump"
      [] ms = "falling" -> "fall"
      [] OTHER -> "run"

caseRun(ms) ==
    CASE ms = "idle"    -> "idle"
      [] ms = "walking" -> "walk"
      [] ms = "jumping" -> "jump"
      [] ms = "falling" -> "fall"
      [] OTHER -> "run"

\* the physically integrated jump of the earlier revision: jump -> fall
caseJump_toFall(ms) ==
    IF ms = "falling" THEN "fall" ELSE "jump"

caseJump(ms) ==
    IF ms \in Grounded
    THEN (IF ms = "walking" THEN "walk"
          ELSE IF ms = "running" THEN "run"
          ELSE "idle")
    ELSE "jump"

\* the earlier revision's fall: ground contact goes through land
caseFall_toLand(ms) ==
    IF ms \in Grounded THEN "land" ELSE "fall"

\* fall that forgets which grounded state to resume
caseFall_alwaysIdle(ms) ==
    IF ms \in Grounded THEN "idle" ELSE "fall"

\* fall that lets a jumping classification through
caseFall_toJump(ms) ==
    IF ms \in Grounded
    THEN (IF ms = "walking" THEN "walk"
          ELSE IF ms = "running" THEN "run"
          ELSE "idle")
    ELSE IF ms = "jumping" THEN "jump"
    ELSE "fall"

caseFall(ms) ==
    IF ms \in Grounded
    THEN (IF ms = "walking" THEN "walk"
          ELSE IF ms = "running" THEN "run"
          ELSE "idle")
    ELSE "fall"

caseLand(ms) ==
    IF ms = "walking" THEN "walk"
    ELSE IF ms = "running" THEN "run"
    ELSE "idle"

\* a timed variant: leaving jump or fall waits for a frame of at least 300 ms
updateState_timed(cur, ms, dt) ==
    CASE cur = "idle" -> caseIdle(ms)
      [] cur = "walk" -> caseWalk(ms)
      [] cur = "run"  -> caseRun(ms)
      [] cur = "jump" -> IF dt >= 300 THEN caseJump(ms) ELSE cur
      [] cur = "fall" -> IF dt >= 300 THEN caseFall(ms) ELSE cur
      [] cur = "land" -> caseLand(ms)
      [] OTHER -> cur

\* The switch of update(): the state after one call. dt is accepted and
\* discarded (void dt).
updateState(cur, ms, dt) ==
    CASE cur = "idle" -> caseIdle(ms)
      [] cur = "walk" -> caseWalk(ms)
      [] cur = "run"  -> caseRun(ms)
      [] cur = "jump" -> caseJump(ms)
      [] cur = "fall" -> caseFall(ms)
      [] cur = "land" -> caseLand(ms)
      [] OTHER -> cur

\* ------------------------------------------------------------ playState()
Cmd(op, g, loop, speed) == [op |-> op, group |-> g, loop |-> loop, speed |-> speed]

\* The animation groups after the commands cs, in order: start(loop, speed)
\* leaves the group started, stop() leaves it stopped. They are no longer
\* followed once the manager is disposed.
RECURSIVE AfterCmds(_, _)
AfterCmds(cl, cs) ==
    IF cs = <<>> \/ cl.disposed THEN cl
    ELSE LET c == Head(cs)
             n == CASE c.op = "start" ->
                         [cl EXCEPT !.playing = @ \cup {c.group},
                                    !.last = c.group]
                    [] c.op = "stop" ->
                         [cl EXCEPT !.playing = @ \ {c.group}]
                    [] OTHER -> cl
         IN  AfterCmds(n, Tail(cs))

\* a crossfade that leaves the outgoing clip running
playState_noStop(state, map, cur) ==
    LET nextGroup  == map[state]
        start      == Cmd("start", nextGroup, state \in LOOPING_STATES,
                          SPEED_RATIOS(state))
        weight     == Cmd("weight", nextGroup, FALSE, 10)
    IN  IF nextGroup = NoGroup
        THEN [group |-> cur, cmds |-> <<>>]
        ELSE [group |-> nextGroup, cmds |-> <<start, weight>>]

\* a crossfade that starts the incoming clip before stopping the outgoing one
playState_startFirst(state, map, cur) ==
    LET nextGroup  == map[state]
        start      == Cmd("start", nextGroup, state \in LOOPING_STATES,
                          SPEED_RATIOS(state))
        weight     == Cmd("weight", nextGroup, FALSE, 10)
    IN  IF nextGroup = NoGroup
        THEN [group |-> cur, cmds |-> <<>>]
        ELSE IF cur # NoGroup /\ cur # nextGroup
        THEN [group |-> nextGroup,
              cmds  |-> <<start, Cmd("stop", cur, FALSE, 0), weight>>]
        ELSE [group |-> nextGroup, cmds |-> <<start, weight>>]

\* Result of playState(state) with the given map and current group: the new
\* current group and the commands issued, in order.
playState(state, map, cur) ==
    LET nextGroup  == map[state]
        shouldLoop == state \in LOOPING_STATES
        speedRatio == SPEED_RATIOS(state)
        start      == Cmd("start", nextGroup, shouldLoop, speedRatio)
        weight     == Cmd("weight", nextGroup, FALSE, 10)
    IN  IF nextGroup = NoGroup
        THEN [group |-> cur, cmds |-> <<>>]
        ELSE IF cur # NoGroup /\ cur # nextGroup
        THEN [group |-> nextGroup,
              cmds  |-> <<Cmd("stop", cur, FALSE, 0), start, weight>>]
        ELSE [group |-> nextGroup, cmds |-> <<start, weight>>]

\* ====================================================== MannequinController
\* ------------------------------------------------------------------ bounds
\* Number of MannequinController.update calls explored in one run.
MaxFrames == 3
\* Number of key events explored in one run.
MaxKeys == 2
\* Number of consecutive updates without horizontal input explored in one
\* run of the coasting avatar.
MaxDecayFrames == 40

\* ---------------------------------------------------------------- constants
WALK_SPEED == 18000000        \* 3.0
RUN_SPEED == 42000000         \* 7.0
FLY_SPEED == 18000000         \* 3.0
BACKWARD_MULTIPLIER == 7      \* 0.7, in tenths
STRAFE_MULTIPLIER == 8        \* 0.8, in tenths
GRAVITY == 0 - 981000         \* -9.81 per second, per tick of 1/60 s
ROTATION_SPEED == 100         \* 3.0 rad/s, in 1/2000 rad per tick
JUMP_ANIM_DURATION == 60      \* 1.0 s

\* One length unit, and the quantities of update() measured in it.
UnitLength == 6000 * 60
RAY_LIFT == UnitLength              \* ray origin is pos.y + 1.0
RAY_LENGTH == 2 * UnitLength        \* new Ray(origin, Down, 2.0)
SAFETY_Y == 0 - 50 * UnitLength     \* pos.y < -50
RESPAWN == [x |-> 0, y |-> 5 * UnitLength, z |-> 0]   \* pos.set(0, 5, 0)
\* The 'grid' ground mesh: a 1000 x 1000 plane at height 0.
GRID_HALF == 500 * UnitLength
GROUND_Y == 0

\* Frame times handed to update(), in ticks: a zero frame, a 60 Hz frame and
\* stalls of 0.5 s and 1 s.
FrameTimes == {0, 1, 30, 60}

\* Spawn points of the payload: the default, one at the edge of the grid,
\* one half a unit below the ground and one below the safety threshold.
SpawnPoints ==
    { [x |-> 0, y |-> 0, z |-> 0],
      [x |-> 0, y |-> 0, z |-> 499 * UnitLength],
      [x |-> 0, y |-> 0 - (UnitLength \div 2), z |-> 0],
      [x |-> 0, y |-> 0 - 60 * UnitLength, z |-> 0] }

KeyNames == {"forward", "backward", "left", "right", "shift", "jump"}
\* KeyE toggles flight and has no key-state flag.
FlyKey == "fly"

\* -------------------------------------------------------------- arithmetic
Abs(a) == IF a < 0 THEN 0 - a ELSE a
Max(a, b) == IF a >= b THEN a ELSE b
\* a / b rounded toward zero (b > 0)
Quot(a, b) == IF a >= 0 THEN a \div b ELSE 0 - ((0 - a) \div b)

\* One, in millionths: the scale of sines and of the factors below.
Million == 1000000
\* 1/6000 per second in velocity units: the thresholds 0.01 and 0.1 of the
\* code are 60 and 600 of these. Also the base of the parts of a product.
Milli == 1000

\* a * b / 10^6 for a, b >= 0, rounded down; the product is taken in
\* parts of three digits.
FixMul(a, b) ==
    LET a1 == a \div Milli
        a0 == a % Milli
        b1 == b \div Milli
        b0 == b % Milli
        t  == a1 * b0 + a0 * b1
    IN  a1 * b1 + t \div Milli + ((t % Milli) * Milli + a0 * b0) \div Million
\* a * b / 10^6 rounded toward zero
Scale(a, b) ==
    (IF (a < 0) = (b < 0) THEN 1 ELSE 0 - 1) * FixMul(Abs(a), Abs(b))

\* Math.PI, in microradians
Pi == 3141593
HalfPi == 1570796
TwoPi == 6283185
\* Math.sin of x microradians, 0 <= x <= pi/2, in millionths: the Taylor
\* polynomial of degree 11, within 3 millionths of the sine.
SinQuarter(x) ==
    LET y  == FixMul(x, x)
        t5 == Million - y \div 110
        t4 == Million - FixMul(y, t5) \div 72
        t3 == Million - FixMul(y, t4) \div 42
        t2 == Million - FixMul(y, t3) \div 20
        t1 == Million - FixMul(y, t2) \div 6
        s  == FixMul(x, t1)
    IN  IF s > Million THEN Million ELSE s
\* Math.sin of u microradians, in millionths
SinMicro(u) ==
    LET r == u % TwoPi
    IN  (IF r <= Pi THEN 1 ELSE 0 - 1)
           * SinQuarter(IF r <= HalfPi THEN r
                        ELSE IF r <= Pi THEN Pi - r
                        ELSE IF r <= Pi + HalfPi THEN r - Pi
                        ELSE TwoPi - r)
\* The yaws a run reaches are the multiples of the turn of one tick up to
\* MaxFrames frames of a second; their sines and cosines are computed once.
YawSteps == MaxFrames * 60
SinTable == [k \in (0 - YawSteps)..YawSteps |-> SinMicro(k * ROTATION_SPEED * 500)]
CosTable ==
    [k \in (0 - YawSteps)..YawSteps |-> SinMicro(k * ROTATION_SPEED * 500 + HalfPi)]
Tabled(yaw) ==
    yaw % ROTATION_SPEED = 0 /\ Abs(yaw) <= YawSteps * ROTATION_SPEED
\* Math.sin and Math.cos of a yaw in 1/2000 rad, in millionths
Sin(yaw) ==
    IF Tabled(yaw) THEN SinTable[yaw \div ROTATION_SPEED] ELSE SinMicro(yaw * 500)
Cos(yaw) ==
    IF Tabled(yaw) THEN CosTable[yaw \div ROTATION_SPEED]
    ELSE SinMicro(yaw * 500 + HalfPi)

\* a damping that never snaps a small component to zero
Decay_noSnap(v, dt) == Quot(v * Max(0, 6 - dt), 6)

\* v *= Math.max(0, 1 - 10 * dt); if (Math.abs(v) < 0.01) v = 0
Decay(v, dt) ==
    LET w == Quot(v * Max(0, 6 - dt), 6)
    IN  IF Abs(w) < 60 * Milli THEN 0 ELSE w

\* ------------------------------------------------------------- key events
NoKeys == [k \in KeyNames |-> FALSE]

\* a jump latch that ignores where the avatar is
latchesJump_always(c) == TRUE

\* onKeyDown, case 'Space': the jump latch
latchesJump(c) == c.isGrounded /\ ~c.isFlying

\* a flight entry that leaves isGrounded alone
onKeyDown_keepsGround(c, k) ==
    IF k = FlyKey
    THEN IF c.isFlying
         THEN [c EXCEPT !.isFlying = FALSE]
         ELSE [c EXCEPT !.isFlying = TRUE,
                        !.vel = [c.vel EXCEPT !.y = FLY_SPEED],
                        !.isPlayingJump = FALSE]
    ELSE IF k = "jump"
    THEN [c EXCEPT !.keys = [c.keys EXCEPT !["jump"] = TRUE],
                   !.jumpRequested = (c.jumpRequested \/ latchesJump(c))]
    ELSE [c EXCEPT !.keys = [c.keys EXCEPT ![k] = TRUE]]

\* onKeyDown
onKeyDown(c, k) ==
    IF k = FlyKey
    THEN IF c.isFlying
         THEN [c EXCEPT !.isFlying = FALSE]
         ELSE [c EXCEPT !.isFlying = TRUE,
                        !.isGrounded = FALSE,
                        !.vel = [c.vel EXCEPT !.y = FLY_SPEED],
                        !.isPlayingJump = FALSE]
    ELSE IF k = "jump"
    THEN [c EXCEPT !.keys = [c.keys EXCEPT !["jump"] = TRUE],
                   !.jumpRequested = (c.jumpRequested \/ latchesJump(c))]
    ELSE [c EXCEPT !.keys = [c.keys EXCEPT ![k] = TRUE]]

\* onKeyUp
onKeyUp(c, k) == [c EXCEPT !.keys = [c.keys EXCEPT ![k] = FALSE]]

\* ---------------------------------------------------------------- update()
\* a turn that needs no forward or backward key
turnOf_always(keys, dt) ==
    IF keys.right THEN ROTATION_SPEED * dt
    ELSE IF keys.left THEN 0 - ROTATION_SPEED * dt
    ELSE 0

\* Steps 1-5 of update(): rotation, move vector, horizontal velocity.
turnOf(keys, dt) ==
    IF keys.forward \/ keys.backward
    THEN (IF keys.right THEN ROTATION_SPEED * dt
          ELSE IF keys.left THEN 0 - ROTATION_SPEED * dt
          ELSE 0)
    ELSE 0

speedOf(c) ==
    IF c.isFlying THEN WALK_SPEED
    ELSE IF c.keys.shift THEN RUN_SPEED ELSE WALK_SPEED

\* The accumulated move vector <<moveX, moveZ>> for the sine and cosine of
\* a facing.
moveAlong(keys, sin, cos, speed) ==
    LET forwardX == sin
        forwardZ == cos
        rightX   == cos
        rightZ   == 0 - sin
        fwd(d)   == IF keys.forward THEN Scale(d, speed) ELSE 0
        bwd(d)   == IF keys.backward
                    THEN Quot(Scale(d, speed) * BACKWARD_MULTIPLIER, 10) ELSE 0
        strafing == ~(keys.forward \/ keys.backward)
        lft(d)   == IF strafing /\ keys.left
                    THEN Quot(Scale(d, speed) * STRAFE_MULTIPLIER, 10) ELSE 0
        rgt(d)   == IF strafing /\ keys.right
                    THEN Quot(Scale(d, speed) * STRAFE_MULTIPLIER, 10) ELSE 0
    IN  << fwd(forwardX) - bwd(forwardX) - lft(rightX) + rgt(rightX),
           fwd(forwardZ) - bwd(forwardZ) - lft(rightZ) + rgt(rightZ) >>
\* The accumulated move vector <<moveX, moveZ>> for a facing.
moveOf(keys, facing, speed) ==
    moveAlong(keys, Sin(facing), Cos(facing), speed)

\* Flight vertical control (Space ascends, Shift descends, else damping).
flightVy(c, dt) ==
    IF c.keys.jump THEN FLY_SPEED
    ELSE IF c.keys.shift THEN 0 - FLY_SPEED
    ELSE Decay(c.vel.y, dt)

\* The condition under which a latched jump request starts a jump.
jumpStarts(c) ==
    c.jumpRequested /\ c.isGrounded /\ ~c.isPlayingJump /\ ~c.isFlying

\* gravity on every avatar that does not fly
gravityApplies_always(grounded, flying) == ~flying

\* The condition under which gravity is added to the vertical velocity.
gravityApplies(grounded, flying) == ~grounded /\ ~flying

\* v * dt in position units (one is Milli velocity units times a
\* tick), rounded toward zero
travel(v, dt) ==
    LET a == Abs(v)
        d == (a \div Milli) * dt + ((a % Milli) * dt) \div Milli
    IN  IF v < 0 THEN 0 - d ELSE d

\* a frame that never lasts less than one tick
displacement_minFrame(v, dt) == travel(v, Max(dt, 1))

\* pos += velocity * dt
displacement(v, dt) == travel(v, dt)

\* Whether pos.y is integrated from velocity.y.
integratesY(playingJump, flying) == ~playingJump \/ flying

\* The ground probe: the ray from pos.y + 1 down over length 2 against the
\* grid. "none" for no hit, else whether the hit lies below the avatar.
probeOf(p) ==
    IF /\ Abs(p.x) <= GRID_HALF /\ Abs(p.z) <= GRID_HALF
       /\ p.y + RAY_LIFT >= GROUND_Y
       /\ p.y + RAY_LIFT - RAY_LENGTH <= GROUND_Y
    THEN (IF p.y <= GROUND_Y THEN "atOrAbove" ELSE "below")
    ELSE "none"

\* a jump that lasts one frame longer
jumpExpired_late(timer) == timer > JUMP_ANIM_DURATION

\* if (this.jumpAnimTimer >= JUMP_ANIM_DURATION) this.isPlayingJump = false
jumpExpired(timer) == timer >= JUMP_ANIM_DURATION

\* a flight that ends only on a strictly descending contact
exitsFlight_descendingOnly(vy) == vy < 0

\* if (this.velocity.y <= 0) this.isFlying = false
exitsFlight(vy) == vy <= 0

\* no safety net
belowSafety_never(y) == FALSE

\* if (pos.y < -50): the safety net
belowSafety(y) == y < SAFETY_Y

\* a ground contact that leaves isGrounded alone
groundedAfterSnap_stale(was) == was

\* isGrounded after the ground snap.
groundedAfterSnap(was) == TRUE

\* The controller after update(dt) and what the call did, from the velocity
\* step on: facing and move are the yaw and the move vector of steps 1-4.
updateMoved(c, dt, o, facing, move) ==
    LET keys    == c.keys
        hasInput == move[1] # 0 \/ move[2] # 0
        vx      == IF hasInput THEN move[1] ELSE Decay(c.vel.x, dt)
        vz      == IF hasInput THEN move[2] ELSE Decay(c.vel.z, dt)
        vy1     == IF c.isFlying THEN flightVy(c, dt) ELSE c.vel.y
        starts  == jumpStarts(c)
        timer0  == IF starts THEN 0 ELSE c.jumpAnimTimer
        playing0 == starts \/ c.isPlayingJump
        timer1  == IF playing0 THEN timer0 + dt ELSE timer0
        playing == playing0 /\ ~jumpExpired(timer1)
        grav    == gravityApplies(c.isGrounded, c.isFlying)
        vy2     == IF grav THEN vy1 + GRAVITY * dt ELSE vy1
        p1      == [x |-> c.pos.x + displacement(vx, dt),
                    y |-> IF integratesY(playing, c.isFlying)
                          THEN c.pos.y + displacement(vy2, dt) ELSE c.pos.y,
                    z |-> c.pos.z + displacement(vz, dt)]
        probe   == probeOf(p1)
        contact == probe = "atOrAbove"
        flying1 == IF contact /\ c.isFlying /\ exitsFlight(vy2)
                   THEN FALSE ELSE c.isFlying
        snap    == contact /\ ~flying1
        respawn == probe = "none" /\ belowSafety(p1.y)
        p2      == IF snap THEN [p1 EXCEPT !.y = GROUND_Y]
                   ELSE IF respawn THEN RESPAWN ELSE p1
        v2      == IF respawn THEN [x |-> 0, y |-> 0, z |-> 0]
                   ELSE [x |-> vx, y |-> IF snap THEN 0 ELSE vy2, z |-> vz]
    IN  [ctl |-> [pos |-> p2,
                  vel |-> v2,
                  yaw |-> facing,
                  isGrounded |-> IF snap THEN groundedAfterSnap(c.isGrounded)
                                 ELSE c.isGrounded,
                  isFlying |-> flying1 /\ ~respawn,
                  jumpRequested |-> c.jumpRequested /\ ~starts,
                  isPlayingJump |-> playing,
                  jumpAnimTimer |-> timer1,
                  keys |-> keys],
         obs |-> [op |-> "update", spawn |-> o.spawn,
                  allTick |-> (o.allTick /\ dt = 1),
                  dt |-> dt, prePos |-> c.pos,
                  probePos |-> p1, probe |-> probe,
                  gravity |-> grav, gravityOnJump |-> grav /\ playing,
                  jumpStarted |-> starts, wasGrounded |-> c.isGrounded,
                  wasFlying |-> c.isFlying,
                  pre |-> c, key |-> "none", vy |-> vy2,
                  hasInput |-> hasInput, flyPressed |-> o.flyPressed,
                  fresh |-> (o.op # "update" /\ o.fresh),
                  entered |-> (o.op # "update" /\ o.entered)]]
\* The controller after update(dt), and what the call did.
updateCtl(c, dt, o) ==
    updateMoved(c, dt, o, c.yaw + turnOf(c.keys, dt),
                moveOf(c.keys, c.yaw + turnOf(c.keys, dt), speedOf(c)))

\* velocity.x ** 2 + velocity.z ** 2 as <<hi, lo>>, hi * 10^6 + lo with
\* lo < 10^6, the squares taken in parts of three digits
hSpeedSquared(vel) ==
    LET a  == Abs(vel.x)
        b  == Abs(vel.z)
        a1 == a \div Milli
        a0 == a % Milli
        b1 == b \div Milli
        b0 == b % Milli
        m  == 2 * (a1 * a0 + b1 * b0)
        l  == (m % Milli) * Milli + a0 * a0 + b0 * b0
    IN  << a1 * a1 + b1 * b1 + m \div Milli + l \div Million, l % Million >>
\* <<hi, lo>> exceeds 0.1 ** 2
exceeds(q) == q[1] > 600 * 600 \/ (q[1] = 600 * 600 /\ q[2] > 0)
\* hSpeed < 0.1
hSpeedBelow(vel) == hSpeedSquared(vel)[1] < 600 * 600
\* hSpeed > 0.1
hSpeedAbove(vel) == exceeds(hSpeedSquared(vel))

\* a classification that looks at the horizontal speed first
getMovementState_idleFirst(c) ==
    IF c.isFlying THEN "flying"
    ELSE IF c.isPlayingJump THEN "jumping"
    ELSE IF hSpeedBelow(c.vel) THEN "idle"
    ELSE IF ~c.isGrounded /\ c.vel.y <= 0 THEN "falling"
    ELSE IF c.keys.shift THEN "running"
    ELSE "walking"

\* getMovementState()
getMovementState(c) ==
    IF c.isFlying THEN "flying"
    ELSE IF c.isPlayingJump THEN "jumping"
    ELSE IF ~c.isGrounded /\ c.vel.y <= 0 THEN "falling"
    ELSE IF hSpeedBelow(c.vel) THEN "idle"
    ELSE IF c.keys.shift /\ hSpeedAbove(c.vel) THEN "running"
    ELSE "walking"

\* getIsGrounded()
getIsGrounded(c) == c.isGrounded

\* The controller after construction on a mannequin loaded at spawn point p.
NewController(p) ==
    [pos |-> p,
     vel |-> [x |-> 0, y |-> 0, z |-> 0],
     yaw |-> 0,
     isGrounded |-> TRUE,
     isFlying |-> FALSE,
     jumpRequested |-> FALSE,
     isPlayingJump |-> FALSE,
     jumpAnimTimer |-> 0,
     keys |-> NoKeys]

Origin == [x |-> 0, y |-> 0, z |-> 0]

\* What is observed of a call that is no update: the flags before it.
\* The spawn point and allTick (every update so far lasted one tick) are
\* followed until the first key event.
Observed(op, c, spawn, allTick, k) ==
    [op |-> op, spawn |-> spawn, allTick |-> allTick, dt |-> 0,
     prePos |-> c.pos, probePos |-> c.pos, probe |-> "none",
     gravity |-> FALSE, gravityOnJump |-> FALSE, jumpStarted |-> FALSE,
     wasGrounded |-> c.isGrounded, wasFlying |-> c.isFlying,
     pre |-> c, key |-> k, vy |-> c.vel.y,
     hasInput |-> FALSE, flyPressed |-> FALSE, fresh |-> FALSE,
     entered |-> FALSE]

\* What a key event adds to what was observed before it (o): whether KeyE
\* was ever pressed, whether a jump request was latched since the last
\* update (fresh), and whether flight was entered from the ground since
\* the last update and not left again (entered).
KeyObserved(op, c, k, o) ==
    LET since == o.op # "update"
        down  == op = "keydown"
    IN  [Observed(op, c, Origin, FALSE, k) EXCEPT
           !.flyPressed = o.flyPressed \/ (down /\ k = FlyKey),
           !.fresh = (since /\ o.fresh)
                     \/ (down /\ k = "jump" /\ latchesJump(c)),
           !.entered = IF down /\ k = FlyKey
                       THEN ~c.isFlying /\ c.isGrounded
                       ELSE since /\ o.entered]

\* Nothing observed yet: no controller call has been made.
NoObs(p) == Observed("new", NewController(p), p, TRUE, "none")

\* ========================================================= PostMessageBridge
\* Number of message events explored in one run.
MaxMessages == 2

\* Values carried by a message event, by their typeof.
Undefined == [tag |-> "undefined", v |-> ""]
Null == [tag |-> "null", v |-> ""]
Str(t) == [tag |-> "string", v |-> t]
Num(t) == [tag |-> "number", v |-> t]
\* An object literal, named by its glitchType.
Obj(t) == [tag |-> "object", v |-> t]

\* JavaScript truthiness of a value.
Truthy(x) ==
    CASE x.tag \in {"undefined", "null"} -> FALSE
      [] x.tag = "string" -> x.v # ""
      [] x.tag = "number" -> x.v # "0"
      [] OTHER -> TRUE

SPAWN == "glitch_spawn"
ScripterTypes ==
    {"scripter_command", "scripter_reset", "scripter_create_prim",
     "scripter_load"}

\* The field allowedOrigin when the constructor got no origin.
NoOrigin == Null
\* allowedOrigin ?? null
orNull(x) == IF x.tag \in {"undefined", "null"} THEN NoOrigin ELSE x
\* The constructor's argument, as the program passes it: absent (index.ts
\* constructs the bridge with no argument) or the origin of the parent tool.
AllowedOrigins == {Undefined, Str("https://poqpoq.com")}
\* event.origin: the parent tool, another site, or an opaque origin.
Origins == {"https://poqpoq.com", "https://evil.com", "null"}

Payloads == {Undefined, Null, Obj("terraformer")}
TypeFields ==
    {Undefined, Num("42"), Str(SPAWN), Str("other_message")}
        \cup {Str(t) : t \in ScripterTypes}
\* event.data: null, a string, a number, or an object with the fields type
\* and payload.
NonObjects ==
    {[val |-> x, type |-> Undefined, payload |-> Undefined] :
        x \in {Null, Str("not an object"), Num("42")}}
Objects ==
    {[val |-> Obj("message"), type |-> t, payload |-> q] :
        t \in TypeFields, q \in Payloads}
MessageEvents ==
    {[origin |-> o, data |-> d] : o \in Origins, d \in NonObjects \cup Objects}

\* a handler that lets every origin through
originRejected_never(allowed, origin) == FALSE

\* if (this.allowedOrigin && event.origin !== this.allowedOrigin) return
originRejected(allowed, origin) == Truthy(allowed) /\ Str(origin) # allowed

\* if (!data || typeof data !== 'object' || typeof data.type !== 'string')
malformed(d) ==
    \/ ~Truthy(d.val)
    \/ d.val.tag # "object"
    \/ d.type.tag # "string"

\* messageHandler: the callbacks the event invokes, with their arguments.
messageHandler(b, ev) ==
    IF originRejected(b.allowedOrigin, ev.origin) THEN <<>>
    ELSE IF malformed(ev.data) THEN <<>>
    ELSE IF ev.data.type.v = SPAWN
    THEN (IF b.spawnCallback /\ Truthy(ev.data.payload)
          THEN << [callback |-> SPAWN, arg |-> ev.data.payload] >>
          ELSE <<>>)
    ELSE IF ev.data.type.v \in ScripterTypes
    THEN (IF ev.data.type.v \in b.scripter
          THEN << [callback |-> ev.data.type.v, arg |-> ev.data.val] >>
          ELSE <<>>)
    ELSE <<>>

\* No message event yet.
NoEvent == [origin |-> "", data |-> [val |-> Undefined, type |-> Undefined,
                                     payload |-> Undefined]]

\* new PostMessageBridge(allowedOrigin)
NewBridge(allowed) ==
    [allowedOrigin |-> orNull(allowed),
     spawnCallback |-> FALSE,
     scripter |-> {},
     listening |-> TRUE,
     disposed |-> FALSE]

BridgeInit(allowed) ==
    /\ bridge = NewBridge(allowed)
    /\ inbox = [event |-> NoEvent, hadCallback |-> FALSE,
                wasDisposed |-> FALSE, calls |-> <<>>]
    /\ nMsgs = 0

\* =========================================================== GlitchLifecycle
\* Number of frames the render loop of a spawned lifecycle renders in one
\* run.
MaxRenders == 2

\* The fields of GlitchLifecycle that hold a component.
Components ==
    {"glitchEngine", "lighting", "grid", "physics", "mannequin",
     "controller", "animationManager", "orbitCamera", "otsCamera",
     "cameraSwitcher", "hud"}

\* What the call mannequin.getAnimationGroups() does. The Mannequin built
\* from primitives (character/Mannequin.ts) has no such method, and the
\* call throws a TypeError; the Mannequin loaded from the GLB returns the
\* animation groups of the file, none or all of those the manager maps.
MannequinGroups ==
    {[throws |-> TRUE, groups |-> {}]}
        \cup {[throws |-> FALSE, groups |-> g] :
                  g \in {{}, GroupsOf(GroupNames, 1)}}

\* What a call did: whether it threw, the state it found, and for a
\* rendered frame the callbacks that ran and the classifications the
\* animation manager was handed.
Called(op, threw, from) ==
    [op |-> op, threw |-> threw, from |-> from,
     order |-> <<>>, consumed |-> <<>>]

\* The lifecycle after construction.
NewLifecycle ==
    [state |-> "idle", held |-> {}, pc |-> "none", callbacks |-> <<>>,
     listening |-> FALSE, looping |-> FALSE, disposeRan |-> FALSE,
     last |-> Called("new", FALSE, "idle")]

\* getDeltaTime() of a frame of dt ticks, in milliseconds
TickMs(dt) == (dt * 1000) \div 60

\* a scene that runs the callback registered last first
beforeRender_lastFirst(cbs) ==
    [i \in 1..Len(cbs) |-> cbs[Len(cbs) + 1 - i]]

\* The before-render callbacks in the order the scene runs them: the order
\* of registration.
beforeRender(cbs) == cbs

\* The guard of the lifecycle's per-frame callback.
frameGuard(held) ==
    {"controller", "animationManager", "mannequin", "hud", "glitchEngine"}
        \subseteq held

LifeInit == life = NewLifecycle

\* ------------------------------------------------------------------- Init
CtlInit(p) ==
    /\ ctl = NewController(p)
    /\ obs = NoObs(p)
    /\ nFrames = 0
    /\ nKeys = 0

AnimInit ==
    /\ currentState = "idle"
    /\ animMap = [s \in AnimationStates |-> NoGroup]
    /\ currentGroup = NoGroup
    /\ hasAnimations = FALSE
    /\ cmds = <<>>
    /\ shadowState = "idle"
    /\ dtDiffered = FALSE
    /\ hist = <<>>
    /\ trace = <<"idle">>
    /\ nBinds = 0
    /\ lastOp = "new"
    /\ prevGroup = NoGroup
    /\ clips = [playing |-> {}, last |-> NoGroup, disposed |-> FALSE]

\* The animation manager next to a controller at the default spawn point.
Init == AnimInit /\ CtlInit(Origin) /\ BridgeInit(Undefined) /\ LifeInit

\* The controller at any of the spawn points.
InitCtl ==
    /\ AnimInit /\ BridgeInit(Undefined) /\ LifeInit
    /\ \E p \in SpawnPoints : CtlInit(p)

\* The coasting avatar: spawned at the origin, moved for one tick with some
\* movement keys held, all keys released since.
InitCoast ==
    /\ AnimInit /\ BridgeInit(Undefined) /\ LifeInit
    /\ \E ks \in SUBSET {"forward", "backward", "left", "right", "shift"} :
          LET held  == [NewController(Origin) EXCEPT
                          !.keys = [k \in KeyNames |-> k \in ks]]
              moved == updateCtl(held, 1, NoObs(Origin)).ctl
          IN  /\ ctl = [moved EXCEPT !.keys = NoKeys]
              /\ obs = Observed("keyup", moved, Origin, FALSE, "none")
    /\ nFrames = 0
    /\ nKeys = 0

\* The bridge with or without an allowed origin.
InitBridge ==
    /\ AnimInit /\ CtlInit(Origin) /\ LifeInit
    /\ \E o \in AllowedOrigins : BridgeInit(o)

\* ---------------------------------------------------------------- actions
\* groups.find(g => g.name === animName): the group of that name in the
\* collection, NoGroup (undefined) when there is none.
find(groups, animName) ==
    IF \E g \in groups : g.name = animName
    THEN CHOOSE g \in groups : g.name = animName
    ELSE NoGroup

\* AnimationManager.bindAnimations(groups): the groups found by name replace
\* the entries of their states, the other entries stay as they are.
bindManager(groups) ==
    /\ nBinds < MaxBinds /\ nBinds + Len(hist) < MaxCalls
    /\ LET newMap == [s \in AnimationStates |->
                        IF find(groups, STATE_TO_ANIM[s]) # NoGroup
                        THEN find(groups, STATE_TO_ANIM[s]) ELSE animMap[s]]
           has    == \E s \in AnimationStates : newMap[s] # NoGroup
           played == IF has THEN playState("idle", newMap, currentGroup)
                     ELSE [group |-> currentGroup, cmds |-> <<>>]
       IN  /\ animMap' = newMap
           /\ hasAnimations' = has
           /\ currentGroup' = played.group
           /\ cmds' = played.cmds
           /\ clips' = AfterCmds(clips, played.cmds)
    /\ nBinds' = nBinds + 1
    /\ lastOp' = "bindAnimations"
    /\ prevGroup' = currentGroup
    /\ UNCHANGED <<currentState, shadowState, dtDiffered, hist, trace>>

\* A caller invokes bindAnimations() on a manager of its own. The loads are
\* numbered in the order in which the caller first binds their groups.
bindAnimations(groups) ==
    /\ \A g \in groups : g.load <= nBinds + 1
    /\ bindManager(groups)
    /\ UNCHANGED <<ctlVars, brVars, lifeVars>>

\* an update that replays the clip of the current state on every call
playsOnUpdate_always(prev, next, has) == has

\* The guard of the playState call at the end of update().
playsOnUpdate(prev, next, has) == next # prev /\ has

\* an update that refuses to enter a state whose clip is missing
update_needsClip(ms, dt, dt2) ==
    /\ nBinds + Len(hist) < MaxCalls
    /\ LET prev   == currentState
           cand   == updateState(prev, ms, dt)
           next   == IF hasAnimations /\ animMap[cand] = NoGroup
                     THEN prev ELSE cand
           played == IF playsOnUpdate(prev, next, hasAnimations)
                     THEN playState(next, animMap, currentGroup)
                     ELSE [group |-> currentGroup, cmds |-> <<>>]
       IN  /\ currentState' = next
           /\ currentGroup' = played.group
           /\ cmds' = played.cmds
           /\ clips' = AfterCmds(clips, played.cmds)
           /\ trace' = Append(trace, next)
    /\ shadowState' = updateState(shadowState, ms, dt2)
    /\ dtDiffered' = (dt # dt2)
    /\ hist' = Append(hist, ms)
    /\ lastOp' = "update"
    /\ prevGroup' = currentGroup
    /\ UNCHANGED <<animMap, hasAnimations, nBinds>>
    /\ UNCHANGED <<ctlVars, brVars, lifeVars>>

\* AnimationManager.update(movementState, dt); the second manager receives
\* the same classification with frame time dt2.
updateManager(ms, dt, dt2) ==
    /\ nBinds + Len(hist) < MaxCalls
    /\ LET prev   == currentState
           next   == updateState(prev, ms, dt)
           played == IF playsOnUpdate(prev, next, hasAnimations)
                     THEN playState(next, animMap, currentGroup)
                     ELSE [group |-> currentGroup, cmds |-> <<>>]
       IN  /\ currentState' = next
           /\ currentGroup' = played.group
           /\ cmds' = played.cmds
           /\ clips' = AfterCmds(clips, played.cmds)
           /\ trace' = Append(trace, next)
    /\ shadowState' = updateState(shadowState, ms, dt2)
    /\ dtDiffered' = (dt # dt2)
    /\ hist' = Append(hist, ms)
    /\ lastOp' = "update"
    /\ prevGroup' = currentGroup
    /\ UNCHANGED <<animMap, hasAnimations, nBinds>>

\* A caller invokes update() on a manager of its own.
update(ms, dt, dt2) ==
    /\ updateManager(ms, dt, dt2)
    /\ UNCHANGED <<ctlVars, brVars, lifeVars>>

\* AnimationManager.dispose()
disposeManager ==
    /\ currentGroup' = NoGroup
    /\ animMap' = [s \in AnimationStates |-> NoGroup]
    /\ cmds' = <<>>
    /\ clips' = [playing |-> {}, last |-> NoGroup, disposed |-> TRUE]
    /\ lastOp' = "dispose"
    /\ prevGroup' = currentGroup
    /\ UNCHANGED <<currentState, hasAnimations, shadowState, dtDiffered,
                   hist, trace, nBinds>>

\* A caller invokes dispose() on a manager of its own.
dispose ==
    /\ disposeManager
    /\ UNCHANGED <<ctlVars, brVars, lifeVars>>

Next ==
    \/ \E groups \in GroupCollections : bindAnimations(groups)
    \/ \E ms \in MovementStates, dt \in DtValues, dt2 \in DtValues :
          update(ms, dt, dt2)
    \/ dispose

Spec == Init /\ [][Next]_vars

\* ------------------------------------------------------ controller actions
\* A keydown event reaches MannequinController.onKeyDown.
KeyDown(k) ==
    /\ nKeys < MaxKeys
    /\ ctl' = onKeyDown(ctl, k)
    /\ obs' = KeyObserved("keydown", ctl, k, obs)
    /\ nKeys' = nKeys + 1
    /\ UNCHANGED nFrames
    /\ UNCHANGED <<animVars, brVars, lifeVars>>

\* A keyup event of a held key reaches MannequinController.onKeyUp.
KeyUp(k) ==
    /\ nKeys < MaxKeys
    /\ ctl.keys[k]
    /\ ctl' = onKeyUp(ctl, k)
    /\ obs' = KeyObserved("keyup", ctl, k, obs)
    /\ nKeys' = nKeys + 1
    /\ UNCHANGED nFrames
    /\ UNCHANGED <<animVars, brVars, lifeVars>>

\* The before-render callback: MannequinController.update(dt).
Frame(dt) ==
    /\ nFrames < MaxFrames
    /\ LET r == updateCtl(ctl, dt, obs)
       IN  ctl' = r.ctl /\ obs' = r.obs
    /\ nFrames' = nFrames + 1
    /\ UNCHANGED nKeys
    /\ UNCHANGED <<animVars, brVars, lifeVars>>

NextCtl ==
    \/ \E k \in KeyNames \cup {FlyKey} : KeyDown(k)
    \/ \E k \in KeyNames : KeyUp(k)
    \/ \E dt \in FrameTimes : Frame(dt)

SpecCtl == InitCtl /\ [][NextCtl]_vars

\* The before-render callback of a render loop that runs at a constant
\* frame time while no key is touched.
Coast(dt) ==
    /\ nFrames < MaxDecayFrames
    /\ obs.op = "update" => dt = obs.dt
    /\ LET r == updateCtl(ctl, dt, obs)
       IN  ctl' = r.ctl /\ obs' = r.obs
    /\ nFrames' = nFrames + 1
    /\ UNCHANGED nKeys
    /\ UNCHANGED <<animVars, brVars, lifeVars>>

NextCoast == \E dt \in FrameTimes \ {0} : Coast(dt)

\* The render loop calls the callback once per frame for as long as it
\* runs, hence the fairness condition.
SpecCoast == InitCoast /\ [][NextCoast]_vars /\ WF_vars(NextCoast)

\* ---------------------------------------------------------- bridge actions
\* onSpawn(callback)
onSpawn ==
    /\ bridge' = [bridge EXCEPT !.spawnCallback = TRUE]
    /\ UNCHANGED <<inbox, nMsgs>>
    /\ UNCHANGED <<animVars, ctlVars, lifeVars>>

\* onScripterCommand, onScripterReset, onScripterCreatePrim, onScripterLoad
onScripter(t) ==
    /\ bridge' = [bridge EXCEPT !.scripter = @ \cup {t}]
    /\ UNCHANGED <<inbox, nMsgs>>
    /\ UNCHANGED <<animVars, ctlVars, lifeVars>>

\* The window dispatches a message event to its registered listeners.
dispatchMessage(ev) ==
    /\ nMsgs < MaxMessages
    /\ inbox' = [event |-> ev,
                 hadCallback |-> bridge.spawnCallback,
                 wasDisposed |-> bridge.disposed,
                 calls |-> IF bridge.listening
                           THEN messageHandler(bridge, ev) ELSE <<>>]
    /\ nMsgs' = nMsgs + 1
    /\ UNCHANGED bridge
    /\ UNCHANGED <<animVars, ctlVars, lifeVars>>

\* PostMessageBridge.dispose()
disposeBridge ==
    /\ bridge' = [bridge EXCEPT !.listening = FALSE,
                                !.spawnCallback = FALSE,
                                !.scripter = {},
                                !.disposed = TRUE]
    /\ UNCHANGED <<inbox, nMsgs>>
    /\ UNCHANGED <<animVars, ctlVars, lifeVars>>

NextBridge ==
    \/ onSpawn
    \/ \E t \in ScripterTypes : onScripter(t)
    \/ \E ev \in MessageEvents : dispatchMessage(ev)
    \/ disposeBridge

SpecBridge == InitBridge /\ [][NextBridge]_vars

\* -------------------------------------------------------- lifecycle actions
\* spawn(config) is called: it throws in every state but idle, and
\* otherwise runs up to its first await.
spawn ==
    /\ life' = IF life.state # "idle"
               THEN [life EXCEPT !.last = Called("spawn", TRUE, life.state)]
               ELSE [life EXCEPT !.state = "loading",
                                 !.held = {"glitchEngine"},
                                 !.pc = "initialize",
                                 !.last = Called("spawn", FALSE, "idle")]
    /\ UNCHANGED <<animVars, ctlVars, brVars>>

\* glitchEngine.initialize() settles and spawn() resumes, up to its second
\* await; ok is false when the promise is rejected.
initialized(ok) ==
    /\ life.pc = "initialize"
    /\ life' = IF ok /\ "glitchEngine" \in life.held
               THEN [life EXCEPT
                       !.held = @ \cup {"lighting", "grid", "physics",
                                        "mannequin"},
                       !.pc = "load",
                       !.last = Called("initialized", FALSE, life.state)]
               ELSE [life EXCEPT
                       !.state = "disposed",
                       !.pc = "none",
                       !.last = Called("initialized", TRUE, life.state)]
    /\ UNCHANGED <<animVars, ctlVars, brVars>>

\* mannequin.load() settles and spawn() resumes, to its end; groups is
\* what the call mannequin.getAnimationGroups() does.
loaded(ok, groups) ==
    /\ life.pc = "load"
    /\ IF ~ok
       THEN /\ life' = [life EXCEPT
                          !.state = "disposed",
                          !.pc = "none",
                          !.last = Called("loaded", TRUE, life.state)]
            /\ UNCHANGED <<animVars, ctlVars>>
       ELSE IF "mannequin" \notin life.held \/ groups.throws
       THEN /\ life' = [life EXCEPT
                          !.state = "disposed",
                          !.pc = "none",
                          !.held = @ \cup {"controller", "animationManager"},
                          !.listening = TRUE,
                          !.callbacks = Append(@, "controller"),
                          !.last = Called("loaded", TRUE, life.state)]
            /\ UNCHANGED <<animVars, ctlVars>>
       ELSE /\ life' = [life EXCEPT
                          !.state = "running",
                          !.pc = "none",
                          !.held = Components,
                          !.listening = TRUE,
                          !.callbacks = Append(Append(@, "controller"),
                                               "lifecycle"),
                          !.looping = TRUE,
                          !.last = Called("loaded", FALSE, life.state)]
            /\ bindManager(groups.groups)
            /\ ctl' = NewController(Origin)
            /\ obs' = NoObs(Origin)
            /\ UNCHANGED <<nFrames, nKeys>>
    /\ UNCHANGED brVars

\* GlitchLifecycle.dispose()
disposeLife ==
    /\ IF life.state = "disposed"
       THEN /\ life' = [life EXCEPT
                          !.last = Called("dispose", FALSE, "disposed")]
            /\ UNCHANGED animVars
       ELSE /\ life' = [life EXCEPT
                          !.state = "disposed",
                          !.held = {},
                          !.callbacks = <<>>,
                          !.listening = FALSE,
                          !.looping = FALSE,
                          !.disposeRan = TRUE,
                          !.last = Called("dispose", FALSE, life.state)]
            /\ IF "animationManager" \in life.held
               THEN disposeManager ELSE UNCHANGED animVars
    /\ UNCHANGED <<ctlVars, brVars>>

\* The render loop renders a frame: the scene runs its before-render
\* callbacks, the controller's (update(dt)) and the lifecycle's (which
\* hands getMovementState() to the animation manager), in the order cbs.
\* The lifecycle's callback sees the controller as the callbacks before it
\* left it.
RenderFrame(dt) ==
    /\ life.looping
    /\ nFrames < MaxRenders
    /\ LET cbs  == beforeRender(life.callbacks)
           r    == updateCtl(ctl, dt, obs)
           seen == IF cbs[1] = "controller" THEN r.ctl ELSE ctl
           ms   == IF frameGuard(life.held)
                   THEN <<getMovementState(seen)>> ELSE <<>>
       IN  /\ ctl' = r.ctl
           /\ obs' = r.obs
           /\ IF ms # <<>>
              THEN updateManager(ms[1], TickMs(dt), TickMs(dt))
              ELSE UNCHANGED animVars
           /\ life' = [life EXCEPT
                         !.last = [Called("render", FALSE, life.state)
                                     EXCEPT !.order = cbs,
                                            !.consumed = ms]]
    /\ nFrames' = nFrames + 1
    /\ UNCHANGED <<nKeys, brVars>>

\* Key events reach the controller while its listeners are on the window.
LiveKeyDown(k) == life.listening /\ KeyDown(k)

LiveKeyUp(k) == life.listening /\ KeyUp(k)

NextLife ==
    \/ spawn
    \/ \E ok \in BOOLEAN : initialized(ok)
    \/ \E ok \in BOOLEAN, groups \in MannequinGroups : loaded(ok, groups)
    \/ disposeLife
    \/ \E dt \in FrameTimes : RenderFrame(dt)
    \/ \E k \in KeyNames \cup {FlyKey} : LiveKeyDown(k)
    \/ \E k \in KeyNames : LiveKeyUp(k)

SpecLife == Init /\ [][NextLife]_vars

\* ---------------------------------------------------------------- helpers
\* Indices of the updates made so far; update i starts in trace[i], receives
\* hist[i] and ends in trace[i+1].
Updates == 1..Len(hist)

GroundedTarget(ms) ==
    CASE ms = "idle" -> "idle"
      [] ms = "walking" -> "walk"
      [] ms = "running" -> "run"
      [] ms = "jumping" -> "jump"
      [] ms = "falling" -> "fall"
      [] OTHER -> "?"

CtlTypeOK ==
    /\ ctl.isGrounded \in BOOLEAN /\ ctl.isFlying \in BOOLEAN
    /\ ctl.isPlayingJump \in BOOLEAN /\ ctl.jumpRequested \in BOOLEAN
    /\ ctl.pos.y \in Int /\ ctl.vel.y \in Int
    /\ obs.probe \in {"none", "below", "atOrAbove"}

TypeOK ==
    /\ currentState \in AnimationStates
    /\ shadowState \in AnimationStates
    /\ currentGroup \in {Group(n, l) : n \in GroupNames, l \in Loads}
                          \cup {NoGroup}
    /\ hasAnimations \in BOOLEAN
    /\ Len(trace) = Len(hist) + 1
    /\ trace[Len(trace)] = currentState

\* ================================================================ claims
\* Every formula below speaks about update i of a run: it starts in
\* trace[i], receives hist[i] and ends in trace[i+1].

\* C1 - Jump self-containment: an update that starts in jump and receives
\* jumping or falling ends in jump (never fall or land); one that receives
\* idle, walking or running ends directly in idle, walk or run.
JumpSelfContained ==
    \A i \in Updates :
        trace[i] = "jump" =>
            /\ hist[i] \in {"jumping", "falling"} => trace[i+1] = "jump"
            /\ hist[i] \in Grounded => trace[i+1] = GroundedTarget(hist[i])
            /\ trace[i+1] \notin {"fall", "land"}

\* A jump that was fed falling, stayed in jump, and later left on a grounded
\* classification.
JumpSelfContainedWitness ==
    \E i, j \in Updates :
        /\ i < j
        /\ trace[i] = "jump" /\ hist[i] = "falling" /\ trace[i+1] = "jump"
        /\ trace[j] = "jump" /\ hist[j] \in Grounded
        /\ trace[j+1] = GroundedTarget(hist[j])

\* C2 - Landing path uniqueness: an update that changes the state to land
\* starts in fly and receives a grounded classification; no update starting
\* in another state produces land.
LandOnlyFromFly ==
    \A i \in Updates :
        (trace[i+1] = "land" /\ trace[i] # "land") =>
            (trace[i] = "fly" /\ hist[i] \in Grounded)

\* Ground contact after a jump and after a ledge fall, neither through land.
LandOnlyFromFlyWitness ==
    \E i, j \in Updates :
        /\ trace[i] = "jump" /\ hist[i] \in Grounded /\ trace[i+1] # "land"
        /\ trace[j] = "fall" /\ hist[j] \in Grounded /\ trace[j+1] # "land"

\* C3 - Fly row: from fly, idle/walking/running go to land, flying keeps
\* fly, jumping and falling leave fly unchanged. The machine is in fly
\* after an update that received flying in idle, walk, run or fall (the
\* test 'fly -> land when grounded' enters fly this way).
FlyRowTarget(ms) == IF ms \in Grounded THEN "land" ELSE "fly"

FlyRow ==
    \A i \in Updates :
        /\ trace[i] = "fly" => trace[i+1] = FlyRowTarget(hist[i])
        /\ (i >= 2 /\ hist[i-1] = "flying"
                   /\ trace[i-1] \in {"idle", "walk", "run", "fall"})
             => trace[i+1] = FlyRowTarget(hist[i])

\* C4 - Flight precedence: from idle, walk, run and fall one update with
\* flying yields fly; walking, falling, flying from a fresh machine gives
\* walk, fall, fly.
FlightPrecedence ==
    /\ \A i \in Updates :
          (trace[i] \in {"idle", "walk", "run", "fall"} /\ hist[i] = "flying")
             => trace[i+1] = "fly"
    /\ hist = <<"walking", "falling", "flying">>
          => trace = <<"idle", "walk", "fall", "fly">>

\* C5 - Grounded rows: a fresh manager is idle, and from idle, walk or run
\* the classifications idle, walking, running, jumping, falling yield idle,
\* walk, run, jump, fall.
GroundedRows ==
    /\ trace[1] = "idle"
    /\ \A i \in Updates :
          (trace[i] \in {"idle", "walk", "run"} /\ hist[i] # "flying")
             => trace[i+1] = GroundedTarget(hist[i])

\* Each of the three grounded states has been left and one was kept by its
\* own classification.
GroundedRowsWitness ==
    /\ \A s \in {"idle", "walk", "run"} :
          \E i \in Updates : trace[i] = s /\ trace[i+1] # s
    /\ \E i \in Updates :
          trace[i] = "run" /\ hist[i] = "running" /\ trace[i+1] = "run"

\* C6 - Ledge fall exits directly: from fall, idle/walking/running go to
\* idle/walk/run (never land), falling stays in fall; walking, falling, idle
\* from a fresh machine gives walk, fall, idle.
LedgeFallDirect ==
    /\ \A i \in Updates :
          trace[i] = "fall" =>
              /\ hist[i] \in Grounded => trace[i+1] = GroundedTarget(hist[i])
              /\ hist[i] = "falling" => trace[i+1] = "fall"
    /\ hist = <<"walking", "falling", "idle">>
          => trace = <<"idle", "walk", "fall", "idle">>

\* A ledge fall that kept falling and then resumed running on contact.
LedgeFallDirectWitness ==
    \E i, j \in Updates :
        /\ i < j
        /\ trace[i] = "fall" /\ hist[i] = "falling" /\ trace[i+1] = "fall"
        /\ trace[j] = "fall" /\ hist[j] = "running" /\ trace[j+1] = "run"

\* C7 - Land row: from land, idle/walking/running yield idle/walk/run and
\* jumping, falling, flying leave land unchanged; flying, idle, idle from a
\* fresh machine gives fly, land, idle.
LandRow ==
    /\ \A i \in Updates :
          trace[i] = "land" =>
              trace[i+1] = (IF hist[i] \in Grounded
                            THEN GroundedTarget(hist[i]) ELSE "land")
    /\ hist = <<"flying", "idle", "idle">>
          => trace = <<"idle", "fly", "land", "idle">>

\* C8 - From fall, one update with jumping goes to jump.
FallToJumpOnJumping ==
    \A i \in Updates :
        (trace[i] = "fall" /\ hist[i] = "jumping") => trace[i+1] = "jump"

\* C8 as amended - From fall, an update with jumping leaves the state fall.
FallIgnoresJumping ==
    \A i \in Updates :
        (trace[i] = "fall" /\ hist[i] = "jumping") => trace[i+1] = "fall"

\* A falling machine has been fed jumping.
FallIgnoresJumpingWitness ==
    \E i \in Updates :
        trace[i] = "fall" /\ hist[i] = "jumping" /\ currentState = "fall"

\* C9 - The state changes only on a classification change: an update that
\* receives the same classification as the preceding update does not change
\* the state.
NoChangeOnRepeat ==
    \A i \in Updates :
        (i >= 2 /\ hist[i] = hist[i-1]) => trace[i+1] = trace[i]

\* A classification changed the state and its repetition did not.
NoChangeOnRepeatWitness ==
    \E i \in Updates :
        /\ i >= 2 /\ hist[i] = hist[i-1]
        /\ trace[i] # trace[i-1] /\ trace[i+1] = trace[i]

\* C10 - Level-triggered transitions: two managers fed the same
\* classifications with arbitrary, different frame times are always in the
\* same state.
LevelTriggered == shadowState = currentState

\* The last update changed the state while the two frame times differed.
LevelTriggeredWitness ==
    /\ dtDiffered
    /\ Len(hist) >= 2
    /\ trace[Len(hist)] \in {"jump", "fall"}
    /\ currentState \in {"idle", "walk", "run"}

\* ------------------------------------------------- playback (C11 - C14)
\* The last call was an update, and whether it changed the state.
LastWasUpdate == lastOp = "update"
LastChanged == trace[Len(trace)] # trace[Len(trace) - 1]

StartCount(c) == Cardinality({k \in 1..Len(c) : c[k].op = "start"})

\* C11 - Hard-cut crossfade ordering: an update that changes the state to
\* one with a bound clip stops the previous clip first if it is a different
\* clip, then starts the new clip with the state's loop flag (true for
\* idle/walk/run/fall) and speed ratio (1.5 for run, else 1.0), then sets
\* its weight to 1, and the new clip becomes the current clip; no stop is
\* issued when outgoing and incoming are the same clip.
CrossfadeOrdering ==
    (LastWasUpdate /\ LastChanged /\ animMap[currentState] # NoGroup) =>
        LET g     == animMap[currentState]
            loop  == currentState \in {"idle", "walk", "run", "fall"}
            speed == IF currentState = "run" THEN 15 ELSE 10
            start == [op |-> "start", group |-> g, loop |-> loop,
                      speed |-> speed]
            n     == Len(cmds)
        IN  /\ currentGroup = g
            /\ n >= 2
            /\ cmds[n-1] = start
            /\ cmds[n].op = "weight" /\ cmds[n].group = g /\ cmds[n].speed = 10
            /\ IF prevGroup # NoGroup /\ prevGroup # g
               THEN n = 3 /\ cmds[1].op = "stop" /\ cmds[1].group = prevGroup
               ELSE n = 2

\* An update entered run from idle: Idle is stopped, then Walk is started
\* at 1.5x.
CrossfadeOrderingWitness ==
    /\ LastWasUpdate /\ LastChanged
    /\ currentState = "run"
    /\ prevGroup.name = "Idle" /\ currentGroup.name = "Walk"
    /\ Len(cmds) = 3

\* C12 - An update issues at most one start command, and no command at all
\* when it does not change the animation state.
AtMostOneStart ==
    LastWasUpdate =>
        /\ StartCount(cmds) <= 1
        /\ ~LastChanged => cmds = <<>>

\* An update left the state unchanged while its clip is bound and playing.
AtMostOneStartWitness ==
    /\ LastWasUpdate /\ ~LastChanged
    /\ hasAnimations /\ animMap[currentState] # NoGroup
    /\ currentGroup = animMap[currentState]
    /\ cmds = <<>>

\* The transition table of the specification (section 4.2).
SpecTable(st, ms) ==
    CASE st \in {"idle", "walk", "run"} ->
            (IF ms = "flying" THEN "fly" ELSE GroundedTarget(ms))
      [] st = "jump" ->
            (IF ms \in Grounded THEN GroundedTarget(ms)
             ELSE IF ms = "flying" THEN "fly" ELSE "jump")
      [] st = "fall" ->
            (IF ms = "flying" THEN "fly" ELSE GroundedTarget(ms))
      [] st = "land" ->
            (IF ms \in Grounded THEN GroundedTarget(ms) ELSE "land")
      [] st = "fly" ->
            (IF ms \in Grounded THEN "land" ELSE "fly")
      [] OTHER -> st

\* C13 - Headless operation: while no clip has been bound, every update
\* moves the state as the transition table prescribes and no command is
\* issued to any clip.
HeadlessFollowsTable ==
    ~hasAnimations =>
        /\ cmds = <<>> /\ currentGroup = NoGroup
        /\ \A i \in Updates : trace[i+1] = SpecTable(trace[i], hist[i])

\* C14 - Missing bindings never disturb the logical state: whatever is
\* bound, every update moves the state as the switch alone does, and an
\* update whose new state has no bound clip issues no command.
BindingIndependent ==
    /\ \A i \in Updates : trace[i+1] = updateState(trace[i], hist[i], 0)
    /\ (LastWasUpdate /\ animMap[currentState] = NoGroup) =>
           (cmds = <<>> /\ currentGroup = prevGroup)

\* With some clips bound, an update entered a state whose clip is missing.
BindingIndependentWitness ==
    /\ LastWasUpdate /\ LastChanged
    /\ hasAnimations /\ currentGroup # NoGroup
    /\ animMap[currentState] = NoGroup

\* ============================================= controller: ground contact
Updated == obs.op = "update"
Contact == Updated /\ obs.probe = "atOrAbove"
\* The last event was the KeyE keydown that entered flight.
EnteredFlight == obs.op = "keydown" /\ ~obs.wasFlying /\ ctl.isFlying
ZeroVelocity == Origin

\* C15 (as stated): after any update in which the ground probe reported a
\* hit at or above the avatar's height, getIsGrounded() is true.
GroundedOnContact == Contact => getIsGrounded(ctl)

\* C15 (amended): after such an update getIsGrounded() is true unless the
\* avatar is still flying, and it is still flying only while it ascends
\* (vertical velocity above zero), when the ground contact is ignored.
GroundedOnContactUnlessTakeoff ==
    Contact => /\ getIsGrounded(ctl) <=> ~ctl.isFlying
               /\ ctl.isFlying => ctl.vel.y > 0

\* A flight or a fall ends on the ground.
GroundedOnContactWitness ==
    Contact /\ ~obs.wasGrounded /\ getIsGrounded(ctl) /\ obs.wasFlying

\* C16 (as stated): getIsGrounded() is false right after the update in which
\* a jump starts and right after the key event that enters flight from the
\* ground.
GroundedClearedOnDeparture ==
    /\ (Updated /\ obs.jumpStarted) => ~getIsGrounded(ctl)
    /\ (EnteredFlight /\ obs.wasGrounded) => ~getIsGrounded(ctl)

\* C16 (amended): getIsGrounded() is false right after the key event that
\* enters flight from the ground; the jump is animation-only, and right after
\* the update in which a jump starts getIsGrounded() is still true.
GroundedClearedOnFlightOnly ==
    /\ (Updated /\ obs.jumpStarted) => getIsGrounded(ctl)
    /\ (EnteredFlight /\ obs.wasGrounded) => ~getIsGrounded(ctl)

\* KeyE pressed while a jump plays on the ground.
GroundedClearedOnFlightOnlyWitness ==
    /\ EnteredFlight /\ obs.wasGrounded
    /\ ctl.jumpAnimTimer > 0 /\ ctl.jumpAnimTimer < JUMP_ANIM_DURATION
    /\ ctl.vel.y = FLY_SPEED

\* C17: whenever getIsGrounded() is true after an update, the probe of that
\* update reported a hit at or above the avatar's height.
GroundedOnlyAfterContact ==
    (Updated /\ getIsGrounded(ctl)) => obs.probe = "atOrAbove"

\* ============================================ controller: vertical modes
\* C18: isPlayingJump and isFlying are never both true, and no update adds
\* gravity to the vertical velocity while isPlayingJump or isFlying is true.
VerticalExclusive ==
    /\ ~(ctl.isPlayingJump /\ ctl.isFlying)
    /\ Updated => /\ ~obs.gravityOnJump
                  /\ obs.gravity => ~obs.wasFlying

\* An update that added gravity: the avatar falls after leaving flight.
VerticalExclusiveWitness ==
    Updated /\ obs.gravity /\ ctl.vel.y < 0 /\ ~ctl.isPlayingJump

\* ================================================ controller: fixed points
\* The update snapped the avatar up to the ground.
Snapped ==
    /\ obs.probe = "atOrAbove" /\ ~ctl.isFlying
    /\ ctl.pos = [obs.probePos EXCEPT !.y = GROUND_Y]
\* The update respawned the avatar.
Respawned ==
    /\ obs.probe = "none" /\ obs.probePos.y < SAFETY_Y
    /\ ctl.pos = RESPAWN

\* C19 (as stated): update(0) leaves the position unchanged on all axes.
ZeroDtKeepsPosition ==
    (Updated /\ obs.dt = 0) => ctl.pos = obs.prePos

\* C19 (amended): update(0) integrates nothing: it leaves the position
\* unchanged on all axes unless the avatar stands below ground found by the
\* probe (and is not taking off), when it is snapped up to the ground, or
\* lies below the safety threshold with no ground, when it is respawned.
ZeroDtOnlySnaps ==
    (Updated /\ obs.dt = 0) =>
        /\ obs.probePos = obs.prePos
        /\ \/ ctl.pos = obs.prePos
           \/ Snapped /\ obs.prePos.y < GROUND_Y
           \/ Respawned

\* update(0) while the avatar moves.
ZeroDtOnlySnapsWitness ==
    Updated /\ obs.dt = 0 /\ ctl.vel.z # 0 /\ ctl.vel.y # 0
            /\ ctl.pos = obs.prePos

\* C20 (as stated): with no key ever pressed, updates of dt = 1/60 keep the
\* velocity (0,0,0), the position unchanged and the classification idle.
IdleFixedPoint ==
    (nKeys = 0 /\ obs.allTick /\ nFrames > 0) =>
        /\ ctl.vel = ZeroVelocity
        /\ ctl.pos = obs.spawn
        /\ getMovementState(ctl) = "idle"

\* C20 (amended): with no key ever pressed, updates of dt = 1/60 keep the
\* velocity (0,0,0) and the classification idle, and keep the position
\* unchanged except that the first update snaps a spawn point below the
\* ground up to it, or respawns one below the safety threshold.
IdleFixedPointFromGround ==
    (nKeys = 0 /\ obs.allTick /\ nFrames > 0) =>
        /\ ctl.vel = ZeroVelocity
        /\ getMovementState(ctl) = "idle"
        /\ IF probeOf(obs.spawn) = "atOrAbove"
           THEN ctl.pos = [obs.spawn EXCEPT !.y = GROUND_Y]
           ELSE IF obs.spawn.y < SAFETY_Y
           THEN ctl.pos = RESPAWN
           ELSE ctl.pos = obs.spawn

\* Two idle frames at the default spawn point.
IdleFixedPointFromGroundWitness ==
    /\ nKeys = 0 /\ obs.allTick /\ nFrames >= 2
    /\ obs.spawn = Origin /\ ctl.pos = obs.spawn

\* ============================================== controller: classification
\* The classification as a function of velocity, isGrounded, isFlying,
\* isPlayingJump and the shift key, in the stated priority order.
Classified(vel, grounded, flying, playingJump, shift) ==
    IF flying THEN "flying"
    ELSE IF playingJump THEN "jumping"
    ELSE IF ~grounded /\ vel.y <= 0 THEN "falling"
    ELSE IF hSpeedBelow(vel) THEN "idle"
    ELSE IF shift THEN "running"
    ELSE "walking"

\* C21: getMovementState() returns flying, else jumping, else falling (not
\* grounded, vertical velocity <= 0), else idle (horizontal speed < 0.1),
\* else running (shift held), else walking; it is a function of velocity,
\* isGrounded, isFlying, isPlayingJump and shift alone.
ClassificationPriority ==
    getMovementState(ctl) =
        Classified(ctl.vel, ctl.isGrounded, ctl.isFlying, ctl.isPlayingJump,
                   ctl.keys.shift)

\* An airborne avatar without horizontal speed is falling, not idle.
ClassificationPriorityWitness ==
    /\ getMovementState(ctl) = "falling"
    /\ ctl.vel.x = 0 /\ ctl.vel.z = 0 /\ obs.op = "update"

\* ==================================================== controller: key events
KeyPressed(k) == obs.op = "keydown" /\ obs.key = k

\* C22: a Space keydown sets the held-jump flag, latches a jump request
\* only when the avatar is grounded and not flying, and otherwise leaves the
\* request as it was; it changes nothing else.
SpaceLatch ==
    KeyPressed("jump") =>
        ctl = [obs.pre EXCEPT
                 !.keys = [obs.pre.keys EXCEPT !["jump"] = TRUE],
                 !.jumpRequested =
                     IF obs.pre.isGrounded /\ ~obs.pre.isFlying
                     THEN TRUE ELSE obs.pre.jumpRequested]

\* Space pressed while flying: held, but nothing latched.
SpaceLatchWitness ==
    /\ KeyPressed("jump") /\ obs.pre.isFlying
    /\ ctl.keys.jump /\ ~ctl.jumpRequested

\* C23: a KeyE keydown flips isFlying; entering flight clears isGrounded,
\* sets the vertical velocity to FLY_SPEED and cancels a jump, exiting
\* changes isFlying alone; an update of an avatar that is neither flying
\* nor grounded adds gravity.
FlightToggle ==
    /\ KeyPressed(FlyKey) =>
         IF obs.pre.isFlying
         THEN ctl = [obs.pre EXCEPT !.isFlying = FALSE]
         ELSE ctl = [obs.pre EXCEPT
                       !.isFlying = TRUE,
                       !.isGrounded = FALSE,
                       !.vel = [obs.pre.vel EXCEPT !.y = FLY_SPEED],
                       !.isPlayingJump = FALSE]
    /\ (Updated /\ ~obs.pre.isFlying /\ ~obs.pre.isGrounded) =>
         (obs.gravity /\ obs.vy = obs.pre.vel.y + GRAVITY * obs.dt)

\* Flight left in mid-air after a frame of climbing.
FlightToggleWitness ==
    /\ KeyPressed(FlyKey) /\ obs.pre.isFlying /\ ~ctl.isFlying
    /\ ~ctl.isGrounded /\ ctl.pos.y > GROUND_Y

\* ===================================================== controller: safety net
\* C24: an update whose probe reports no hit with the avatar below -50
\* respawns it at (0, 5, 0) with zero velocity and flight cancelled; so
\* after every update the probe reported a hit or the height is >= -50.
SafetyNet ==
    Updated =>
        /\ (obs.probe = "none" /\ obs.probePos.y < SAFETY_Y) =>
               /\ ctl.pos = RESPAWN
               /\ ctl.vel = ZeroVelocity
               /\ ~ctl.isFlying
        /\ obs.probe # "none" \/ ctl.pos.y >= SAFETY_Y

\* A flying avatar below the threshold is respawned.
SafetyNetWitness ==
    Updated /\ Respawned /\ obs.pre.isFlying /\ ~ctl.isFlying

\* ========================================================= controller: jump
\* The jump is in progress in the last update: started in it or before it.
Jumping == Updated /\ (obs.jumpStarted \/ obs.pre.isPlayingJump)
JumpDue ==
    /\ obs.pre.jumpRequested /\ obs.pre.isGrounded
    /\ ~obs.pre.isFlying /\ ~obs.pre.isPlayingJump

\* C26: an update starts a jump exactly when a request is latched and the
\* avatar is grounded, not flying and not jumping, clearing the latch and
\* resetting the timer; the timer advances by dt in every update of a jump,
\* the starting one included; isPlayingJump is true while the timer is below
\* 1.0 s and false from the update in which it reaches 1.0 s; apart from
\* that only flight entry ends a jump.
JumpTimer ==
    /\ Updated =>
         /\ obs.jumpStarted <=> JumpDue
         /\ obs.jumpStarted =>
                ~ctl.jumpRequested /\ ctl.jumpAnimTimer = obs.dt
         /\ obs.pre.isPlayingJump =>
                ctl.jumpAnimTimer = obs.pre.jumpAnimTimer + obs.dt
         /\ Jumping =>
                (ctl.isPlayingJump <=> ctl.jumpAnimTimer < JUMP_ANIM_DURATION)
         /\ ~Jumping => ~ctl.isPlayingJump
    /\ obs.op \in {"keydown", "keyup"} =>
         /\ ctl.jumpAnimTimer = obs.pre.jumpAnimTimer
         /\ ctl.isPlayingJump # obs.pre.isPlayingJump =>
                (EnteredFlight /\ ~ctl.isPlayingJump)

\* Two half-second frames: the jump ends in the second.
JumpTimerWitness ==
    /\ Updated /\ obs.pre.isPlayingJump /\ obs.pre.jumpAnimTimer = 30
    /\ ctl.jumpAnimTimer = JUMP_ANIM_DURATION /\ ~ctl.isPlayingJump

GroundSnap ==
    (Updated /\ ~obs.pre.isFlying /\ obs.probe # "none") =>
        /\ ctl.pos.y = GROUND_Y
        /\ ctl.vel.y = 0
        /\ ctl.isGrounded

\* C28 (amended): the snap needs a hit at or above the avatar's height; a
\* hit below the avatar changes nothing.
GroundSnapOnContact ==
    Updated =>
        /\ (~obs.pre.isFlying /\ obs.probe = "atOrAbove") =>
               /\ ctl.pos = [obs.probePos EXCEPT !.y = GROUND_Y]
               /\ ctl.vel.y = 0
               /\ ctl.isGrounded
        /\ obs.probe = "below" =>
               /\ ctl.pos = obs.probePos
               /\ ctl.vel.y = obs.vy
               /\ ctl.isGrounded = obs.pre.isGrounded
               /\ ctl.isFlying = obs.pre.isFlying

\* The end of a fall.
GroundSnapOnContactWitness ==
    /\ Contact /\ ~obs.pre.isFlying /\ ~obs.pre.isGrounded
    /\ obs.probePos.y < GROUND_Y /\ obs.vy < 0 /\ ctl.isGrounded

\* C29: an update of a flying avatar whose probe hit is at or above its
\* height exits flight iff the vertical velocity is <= 0, and then snaps the
\* avatar to the hit height, zeroes its vertical velocity and sets
\* isGrounded; with a positive vertical velocity the avatar is not snapped
\* and stays flying and not grounded.
FlightTouchdown ==
    (Contact /\ obs.pre.isFlying) =>
        IF obs.vy <= 0
        THEN /\ ~ctl.isFlying
             /\ ctl.pos = [obs.probePos EXCEPT !.y = GROUND_Y]
             /\ ctl.vel.y = 0
             /\ ctl.isGrounded
        ELSE /\ ctl.isFlying
             /\ ctl.pos = obs.probePos
             /\ ctl.vel.y = obs.vy
             /\ ~ctl.isGrounded

\* Takeoff through the snap plane: flying upward at ground level.
FlightTouchdownWitness ==
    /\ Contact /\ obs.pre.isFlying /\ obs.vy > 0
    /\ ctl.isFlying /\ ctl.pos.y = GROUND_Y

\* ==================================================== controller: turning
ForwardOrBack == obs.pre.keys.forward \/ obs.pre.keys.backward
LeftOrRight == obs.pre.keys.left \/ obs.pre.keys.right
Turned == ctl.yaw - obs.pre.yaw
\* The lateral velocity of a strafe to the right, <<x, z>>.
Strafe(yaw, speed) ==
    << Quot(Scale(Cos(yaw), speed) * STRAFE_MULTIPLIER, 10),
       Quot(Scale(0 - Sin(yaw), speed) * STRAFE_MULTIPLIER, 10) >>

\* C30: an update changes the yaw only when forward or backward is held
\* together with left or right, by ROTATION_SPEED * dt; with neither
\* forward nor backward held the yaw is unchanged and left or right gives
\* the lateral strafe velocity; with forward or backward held left and right
\* add nothing to the velocity.
TurnOrStrafe ==
    Updated =>
        /\ Abs(Turned) = IF ForwardOrBack /\ LeftOrRight
                         THEN ROTATION_SPEED * obs.dt ELSE 0
        /\ (~ForwardOrBack /\ ~Respawned) =>
               LET s == Strafe(ctl.yaw, speedOf(obs.pre))
                   k == obs.pre.keys
               IN  /\ (k.right /\ ~k.left) =>
                          <<ctl.vel.x, ctl.vel.z>> = s
                   /\ (k.left /\ ~k.right) =>
                          <<ctl.vel.x, ctl.vel.z>> = <<0 - s[1], 0 - s[2]>>
        /\ (ForwardOrBack /\ ~Respawned) =>
               <<ctl.vel.x, ctl.vel.z>> =
                   moveOf([obs.pre.keys EXCEPT !.left = FALSE,
                                               !.right = FALSE],
                          ctl.yaw, speedOf(obs.pre))

\* Forward and right held for a frame: the avatar turns and walks on.
TurnOrStrafeWitness ==
    /\ Updated /\ obs.pre.keys.forward /\ obs.pre.keys.right
    /\ Turned = ROTATION_SPEED * obs.dt /\ obs.dt > 0
    /\ ctl.vel.x # 0 /\ ctl.vel.z # 0

\* ======================================================== bridge: spawn gate
Dispatched == nMsgs > 0
SpawnInvoked ==
    \E i \in 1..Len(inbox.calls) : inbox.calls[i].callback = SPAWN
\* The event is a well-formed spawn message: an object of type
\* 'glitch_spawn' that carries a payload.
SpawnMessage(ev) ==
    /\ ev.data.val.tag = "object"
    /\ ev.data.type = Str(SPAWN)
    /\ ev.data.payload.tag = "object"

\* C25: a dispatched message invokes the spawn callback exactly
\* when the bridge has a callback and is not disposed, the origin is the
\* allowed one (or the constructor was given none) and the data is an
\* object of type 'glitch_spawn' with a payload; the callback then gets
\* that payload, once. After dispose() no message invokes anything.
SpawnGate ==
    Dispatched =>
        /\ SpawnInvoked <=>
              /\ inbox.hadCallback /\ ~inbox.wasDisposed
              /\ \/ bridge.allowedOrigin = NoOrigin
                 \/ Str(inbox.event.origin) = bridge.allowedOrigin
              /\ SpawnMessage(inbox.event)
        /\ SpawnInvoked =>
              inbox.calls = << [callback |-> SPAWN,
                                arg |-> inbox.event.data.payload] >>
        /\ inbox.wasDisposed => inbox.calls = <<>>

\* A spawn message from the allowed origin reached a bridge constructed with
\* that origin, and the callback got its payload.
SpawnGateWitness ==
    /\ Dispatched /\ SpawnInvoked
    /\ bridge.allowedOrigin = Str("https://poqpoq.com")
    /\ Str(inbox.event.origin) = bridge.allowedOrigin
    /\ inbox.calls[1].arg = Obj("terraformer")

\* ============================================ controller: horizontal decay
\* C31: an update without horizontal input multiplies vx and vz by
\* max(0, 1 - 10 dt) and sets a component of magnitude below 0.01 to 0; so
\* with no input and a constant dt > 0 the horizontal velocity is (0, 0)
\* after finitely many updates, and stays (0, 0).
HorizontalDecay ==
    /\ []((Updated /\ ~obs.hasInput /\ ~Respawned) =>
            \A a \in {"x", "z"} :
               LET w == Quot(obs.pre.vel[a] * Max(0, 6 - obs.dt), 6)
               IN  ctl.vel[a] = IF Abs(w) < 60 * Milli THEN 0 ELSE w)
    /\ <>[](ctl.vel.x = 0 /\ ctl.vel.z = 0)

\* A walking avatar whose key was released: after the first tick without
\* input it still moves, at five sixths of the walking speed.
HorizontalDecayWitness ==
    /\ Updated /\ ~obs.hasInput /\ obs.dt = 1 /\ nFrames = 1
    /\ obs.pre.vel.z = WALK_SPEED
    /\ ctl.vel.z = 15000000

\* ============================================== controller: ground flag
\* C33: a grounded avatar is not flying and has vertical velocity 0; an
\* avatar playing the jump animation is grounded.
GroundedImplies ==
    /\ ctl.isGrounded => (~ctl.isFlying /\ ctl.vel.y = 0)
    /\ ctl.isPlayingJump => ctl.isGrounded

\* A flying avatar touched down: grounded again, vertical velocity zeroed.
GroundedImpliesWitness ==
    /\ Updated /\ obs.pre.isFlying /\ obs.vy < 0
    /\ ctl.isGrounded /\ ~ctl.isFlying /\ ctl.vel.y = 0

\* C34: as long as KeyE was never pressed, isGrounded is true, no update
\* applies gravity and getMovementState() is not 'falling', whatever the
\* ground probe reports.
GroundedWithoutFlightKey ==
    ~obs.flyPressed =>
        /\ ctl.isGrounded
        /\ ~obs.gravity
        /\ getMovementState(ctl) # "falling"

\* The avatar walked past the edge of the grid: no hit, still grounded.
GroundedWithoutFlightKeyWitness ==
    /\ Updated /\ ~obs.flyPressed /\ obs.probe = "none"
    /\ ctl.pos.z > GRID_HALF /\ ctl.isGrounded
    /\ getMovementState(ctl) = "walking"

\* C35 (as stated): getMovementState() returns 'idle', 'walking' or
\* 'running' only when isGrounded is true.
GroundedClassification ==
    getMovementState(ctl) \in {"idle", "walking", "running"} =>
        ctl.isGrounded

\* ============================================== controller: jump request
\* C36 (as stated): a jump starts only in the first update after the Space
\* keydown that latched it, and no request is left latched after an
\* update.
JumpOnlyAfterLatch ==
    Updated => /\ obs.jumpStarted => obs.fresh
               /\ ~ctl.jumpRequested

\* ===================================================== controller: takeoff
\* C37 (as stated): the update that follows a flight entry from the ground
\* leaves the avatar flying, for every dt, unless shift is held.
TakeoffSurvives ==
    (Updated /\ obs.entered /\ ~obs.pre.keys.shift) => ctl.isFlying

\* ================================================ animation: playing clips
\* C38: in a run of bindAnimations and update calls, at most one clip has
\* been started and not stopped since, and it is the current clip.
AtMostOnePlaying ==
    ~clips.disposed =>
        /\ Cardinality(clips.playing) <= 1
        /\ clips.playing \subseteq {currentGroup}

\* A second bindAnimations arrived while a clip was playing, with the
\* groups of another load: the group left behind, of the same name as the
\* new one, is stopped, and the new one is the only one playing.
AtMostOnePlayingWitness ==
    /\ ~clips.disposed /\ lastOp = "bindAnimations" /\ nBinds = 2
    /\ prevGroup # NoGroup /\ prevGroup # currentGroup
    /\ prevGroup.name = currentGroup.name
    /\ clips.playing = {currentGroup}

\* C39 (as stated): with a clip bound to every animation state, at every
\* point after bindAnimations the clip started last is the one mapped to
\* getCurrentState().
PlayingMatchesState ==
    (/\ nBinds > 0 /\ ~clips.disposed
     /\ \A st \in AnimationStates : animMap[st] # NoGroup) =>
        clips.last = animMap[currentState]

\* ================================================== lifecycle: frame order
\* C32: in every rendered frame the controller's update callback runs
\* before the animation manager's update, so the classification the
\* animation manager consumes is that of the controller as the same frame's
\* update left it.
FrameOrdering ==
    (Updated /\ life.last.op = "render") =>
        /\ life.last.order = <<"controller", "lifecycle">>
        /\ life.last.consumed = <<getMovementState(ctl)>>
        /\ hist[Len(hist)] = getMovementState(ctl)

\* A frame whose update changed the classification: 'idle' before it,
\* 'walking' after it, and 'walking' is what the animation manager got.
FrameOrderingWitness ==
    /\ Updated /\ life.last.op = "render"
    /\ getMovementState(obs.pre) = "idle"
    /\ getMovementState(ctl) = "walking"
    /\ hist[Len(hist)] = "walking"

\* ==================================================== lifecycle: disposal
\* C40 (as stated): spawn() is accepted only in state idle and otherwise
\* throws and leaves the state unchanged; once dispose() has run the state
\* is disposed and no component field is non-null, however dispose() is
\* interleaved with a suspended spawn().
DisposalFinal ==
    /\ life.last.op = "spawn" =>
          /\ life.last.threw <=> life.last.from # "idle"
          /\ life.last.threw => life.state = life.last.from
    /\ life.disposeRan => (life.state = "disposed" /\ life.held = {})
====
